---- MODULE Spec2Model ----
(***************************************************************************)
(* Model of pupusolver (src/pupusolver.go): the playfield, the transition  *)
(* function apply (slide, gravity, removal), the move generator, the       *)
(* solvability check, the linked-list frontier and the breadth-first       *)
(* search loop of main, followed by the replay of the reported path.       *)
(***************************************************************************)
EXTENDS Integers, Sequences, FiniteSets, TLC

(* ------------------------------------------------------------------ *)
(* Program constants                                                   *)
(* ------------------------------------------------------------------ *)
playfieldW == 12
playfieldH == 12

tile0 == 0
tile1 == 1
tile2 == 2
tile3 == 3
tile4 == 4
tile5 == 5
tile6 == 6
tile7 == 7
tile8 == 8
tileWall == 9
tileBg == 10
tileEmpty == 11

isMobile(t) == t >= tile0 /\ t <= tile8

isErasable(t) == t >= tile0 /\ t <= tile7

(* ------------------------------------------------------------------ *)
(* Bounds of the model. The start boards are levels of background with *)
(* a window of RegionW columns and two rows, a row of wall under it,   *)
(* and at most MaxTiles mobile tiles resting in the window, its other  *)
(* cells being Empty.                                                  *)
(* ------------------------------------------------------------------ *)
RegionW == 4
MaxTiles == 3

WinRows == {0, 1}

(* Where the window lies (its top-left cell) and the tile kinds placed *)
(* in it: in the middle of the playfield an erasable kind and the      *)
(* glass block; against the top-left corner two erasable kinds;        *)
(* against the bottom-right corner tile0 only.                         *)
Windows ==
  { [o |-> <<4, 5>>, palette |-> {tile1, tile8}],
    [o |-> <<0, 0>>, palette |-> {tile0, tile1}],
    [o |-> <<playfieldW - RegionW, playfieldH - Cardinality(WinRows)>>,
     palette |-> {tile0}] }

(* ------------------------------------------------------------------ *)
(* The playfield: tiles is the [playfieldH+2][playfieldW+2] array, a   *)
(* function of the row index and then the column index, both 0-based.  *)
(* ------------------------------------------------------------------ *)
Rows == 0 .. (playfieldH + 1)
Cols == 0 .. (playfieldW + 1)

(* The zero value of the array type: every cell holds tile 0 (tile0). *)
zeroTiles == [r \in Rows |-> [c \in Cols |-> 0]]

(* Go's bounds check of pf.tiles[y+1][x+1]. *)
inRange(x, y) == (y + 1) \in Rows /\ (x + 1) \in Cols

(* What a write through an index outside the array gives: the         *)
(* run-time panic "index out of range". It stands for the array after  *)
(* the statement and differs from every array.                         *)
indexOutOfRange == <<>>

(* tl is an array that a panicking statement was to produce. *)
panicked(tl) == tl = indexOutOfRange

(* The read has a value only when inRange(x, y); outside the array it  *)
(* is the panic, which each caller that can reach it (extendTileset,   *)
(* lowestFree, applySlide) tests with inRange before it reads.         *)
get(tl, x, y) == tl[y + 1][x + 1]

set(tl, x, y, t) ==
  IF inRange(x, y) THEN [tl EXCEPT ![y + 1][x + 1] = t]
  ELSE indexOutOfRange

(* fill writes rows 0..playfieldH-1 and columns 0..playfieldW-1 of the *)
(* raw array, leaving the other cells at their previous value.         *)
fill(tl, t) ==
  [r \in Rows |-> [c \in Cols |->
     IF r < playfieldH /\ c < playfieldW THEN t ELSE tl[r][c]]]

(* playfieldFromString for well-formed level data: level gives the     *)
(* tile of each of the playfieldH x playfieldW characters.             *)
(* var res playfield; res.fill(tileBg) *)
filledBg == fill(zeroTiles, tileBg)

playfieldFromString(level) ==
  [tiles |-> [r \in Rows |-> [c \in Cols |->
                IF r \in 1 .. playfieldH /\ c \in 1 .. playfieldW
                THEN level[r - 1][c - 1]
                ELSE filledBg[r][c]]],
   path |-> <<>>]

Mv(fy, fx, tx) == [fromY |-> fy, fromX |-> fx, toX |-> tx]

clone(pf) == [tiles |-> pf.tiles, path |-> <<>> \o pf.path]

(* ------------------------------------------------------------------ *)
(* Gravity                                                             *)
(* ------------------------------------------------------------------ *)
RECURSIVE lowestFree(_, _, _)
(* The inner loop of dropTiles: for pf.get(x, y2+1) == tileEmpty { y2++ } *)
(* The result is the row the loop stops at: the cell below it is not   *)
(* Empty, or lies below the last row of the array, where the read      *)
(* panics.                                                             *)
lowestFree(tl, x, y2) ==
  IF inRange(x, y2 + 1) /\ get(tl, x, y2 + 1) = tileEmpty
  THEN lowestFree(tl, x, y2 + 1)
  ELSE y2

RECURSIVE dropRow(_, _, _, _)
(* The inner loop of dropTiles over the columns x.. of row y. *)
dropRow(tl, y, x, changed) ==
  IF x >= playfieldW
  THEN [tiles |-> tl, changed |-> changed, panic |-> FALSE]
  ELSE LET t == get(tl, x, y)
       IN IF isMobile(t) /\ get(tl, x, y + 1) = tileEmpty
          THEN LET y2 == lowestFree(tl, x, y)
               IN IF ~inRange(x, y2 + 1)
                  THEN [tiles |-> tl, changed |-> changed, panic |-> TRUE]
                  ELSE dropRow(set(set(tl, x, y, tileEmpty), x, y2, t),
                               y, x + 1, TRUE)
          ELSE dropRow(tl, y, x + 1, changed)

RECURSIVE dropRows(_, _, _)
(* The outer loop of dropTiles: for y := playfieldH - 1; y > 0; y-- *)
dropRows(tl, y, changed) ==
  IF ~(y > 0)
  THEN [tiles |-> tl, changed |-> changed, panic |-> FALSE]
  ELSE LET r == dropRow(tl, y, 0, changed)
       IN IF r.panic THEN r ELSE dropRows(r.tiles, y - 1, r.changed)

dropTiles(tl) == dropRows(tl, playfieldH - 1, FALSE)

(* ------------------------------------------------------------------ *)
(* Removal                                                             *)
(* ------------------------------------------------------------------ *)
RECURSIVE extendTileset_NoLeft(_, _, _, _)
(* Mutant of extendTileset: the left neighbour is not followed. *)
extendTileset_NoLeft(tl, t, p, st) ==
  IF st.panic \/ p \in st.set THEN st
  ELSE IF ~inRange(p[1], p[2]) THEN [st EXCEPT !.panic = TRUE]
  ELSE IF get(tl, p[1], p[2]) # t THEN st
  ELSE LET s0 == [st EXCEPT !.set = @ \cup {p}]
           s2 == extendTileset_NoLeft(tl, t, <<p[1] + 1, p[2]>>, s0)
           s3 == extendTileset_NoLeft(tl, t, <<p[1], p[2] - 1>>, s2)
       IN extendTileset_NoLeft(tl, t, <<p[1], p[2] + 1>>, s3)

RECURSIVE extendTileset(_, _, _, _)
(* The recursive flood fill. st.set is the map's key set; st.panic is  *)
(* set when a cell outside the array is read (index out of range),     *)
(* which unwinds every pending call.                                   *)
extendTileset(tl, t, p, st) ==
  IF st.panic \/ p \in st.set THEN st
  ELSE IF ~inRange(p[1], p[2]) THEN [st EXCEPT !.panic = TRUE]
  ELSE IF get(tl, p[1], p[2]) # t THEN st
  ELSE LET s0 == [st EXCEPT !.set = @ \cup {p}]
           s1 == extendTileset(tl, t, <<p[1] - 1, p[2]>>, s0)
           s2 == extendTileset(tl, t, <<p[1] + 1, p[2]>>, s1)
           s3 == extendTileset(tl, t, <<p[1], p[2] - 1>>, s2)
       IN extendTileset(tl, t, <<p[1], p[2] + 1>>, s3)

(* for p := range set { pf.set(p.x, p.y, tileEmpty) } *)
clearSet(tl, s) ==
  [r \in Rows |-> [c \in Cols |->
     IF <<c - 1, r - 1>> \in s THEN tileEmpty ELSE tl[r][c]]]

RECURSIVE removeRow_Single(_, _, _, _)
(* Mutant of removeRow: a set of one tile is removed too               *)
(* (len(set) >= 1 for len(set) >= 2).                                  *)
removeRow_Single(tl, y, x, changed) ==
  IF x >= playfieldW
  THEN [tiles |-> tl, changed |-> changed, panic |-> FALSE]
  ELSE LET t == get(tl, x, y)
       IN IF ~isErasable(t)
          THEN removeRow_Single(tl, y, x + 1, changed)
          ELSE LET st == extendTileset(tl, t, <<x, y>>,
                                       [set |-> {}, panic |-> FALSE])
               IN IF st.panic
                  THEN [tiles |-> tl, changed |-> changed, panic |-> TRUE]
                  ELSE IF Cardinality(st.set) >= 1
                  THEN removeRow_Single(clearSet(tl, st.set), y, x + 1, TRUE)
                  ELSE removeRow_Single(tl, y, x + 1, changed)

RECURSIVE removeRow(_, _, _, _)
(* The inner loop of removeTiles over the columns x.. of row y. *)
removeRow(tl, y, x, changed) ==
  IF x >= playfieldW
  THEN [tiles |-> tl, changed |-> changed, panic |-> FALSE]
  ELSE LET t == get(tl, x, y)
       IN IF ~isErasable(t)
          THEN removeRow(tl, y, x + 1, changed)
          ELSE LET st == extendTileset(tl, t, <<x, y>>,
                                       [set |-> {}, panic |-> FALSE])
               IN IF st.panic
                  THEN [tiles |-> tl, changed |-> changed, panic |-> TRUE]
                  ELSE IF Cardinality(st.set) >= 2
                  THEN removeRow(clearSet(tl, st.set), y, x + 1, TRUE)
                  ELSE removeRow(tl, y, x + 1, changed)

RECURSIVE removeRows(_, _, _)
(* The outer loop of removeTiles: for y := 0; y < playfieldH; y++ *)
removeRows(tl, y, changed) ==
  IF y >= playfieldH
  THEN [tiles |-> tl, changed |-> changed, panic |-> FALSE]
  ELSE LET r == removeRow(tl, y, 0, changed)
       IN IF r.panic THEN r ELSE removeRows(r.tiles, y + 1, r.changed)

removeTiles(tl) == removeRows(tl, 0, FALSE)

(* ------------------------------------------------------------------ *)
(* apply                                                               *)
(* ------------------------------------------------------------------ *)
(* Mutant of applySlide: the move is not appended to the path. *)
applySlide_NoAppend(pf, m) ==
  LET pf2 == clone(pf)
      t == get(pf2.tiles, m.fromX, m.fromY)
  IN [tiles |-> set(set(pf2.tiles, m.fromX, m.fromY, tileEmpty),
                    m.toX, m.fromY, t),
      path |-> pf2.path]

(* Mutant of applySlide: the source cell is not cleared. *)
applySlide_KeepSource(pf, m) ==
  LET pf2 == clone(pf)
      t == get(pf2.tiles, m.fromX, m.fromY)
  IN [tiles |-> set(pf2.tiles, m.toX, m.fromY, t),
      path |-> Append(pf2.path, m)]

(* Lines 135-142: clone, append the move, slide the tile. tiles is     *)
(* indexOutOfRange when get or one of the two set panics, which is     *)
(* when the source or the destination lies outside the array.          *)
applySlide(pf, m) ==
  LET pf2 == clone(pf)
      t == get(pf2.tiles, m.fromX, m.fromY)
  IN [tiles |-> IF inRange(m.fromX, m.fromY) /\ inRange(m.toX, m.fromY)
                THEN set(set(pf2.tiles, m.fromX, m.fromY, tileEmpty),
                         m.toX, m.fromY, t)
                ELSE indexOutOfRange,
      path |-> Append(pf2.path, m)]

(* One iteration of the for loop of apply. removeTiles is only called  *)
(* when dropTiles changed nothing (changed || ... short-circuits).     *)
applyPass(tl) ==
  LET d == dropTiles(tl)
  IN IF d.panic THEN d
     ELSE IF d.changed
     THEN [tiles |-> d.tiles, changed |-> TRUE, panic |-> FALSE]
     ELSE removeTiles(d.tiles)

(* Mutant of applyLoop: apply returns after the first pass, whether   *)
(* or not it changed the board.                                        *)
applyLoop_OnePass(tl) == applyPass(tl)

RECURSIVE applyLoop(_)
(* The for loop of apply: passes until one changes nothing. *)
applyLoop(tl) ==
  LET r == applyPass(tl)
  IN IF r.panic \/ ~r.changed THEN r ELSE applyLoop(r.tiles)

(* apply as a function: the returned playfield, or panic (pf is then   *)
(* the playfield as the panic left it, which no caller receives).      *)
apply(pf, m) ==
  LET s == applySlide(pf, m)
  IN IF panicked(s.tiles)
     THEN [pf |-> [tiles |-> pf.tiles, path |-> s.path], panic |-> TRUE]
     ELSE LET r == applyLoop(s.tiles)
          IN [pf |-> [tiles |-> r.tiles, path |-> s.path],
              panic |-> r.panic]

(* ------------------------------------------------------------------ *)
(* isSolved, isSolvable, possibleMoves                                 *)
(* ------------------------------------------------------------------ *)
Interior == (0 .. (playfieldW - 1)) \X (0 .. (playfieldH - 1))

isSolved(tl) ==
  \A p \in Interior :
     ~(get(tl, p[1], p[2]) >= tile0 /\ get(tl, p[1], p[2]) <= tile7)

(* The counting loop: cnts[t]++ for every cell with tile0 <= t <= tile7. *)
cnts(tl) ==
  LET counted == {p \in Interior : get(tl, p[1], p[2]) >= tile0
                                   /\ get(tl, p[1], p[2]) <= tile7}
  IN [t \in tile0 .. tile7 |->
        Cardinality({p \in counted : get(tl, p[1], p[2]) = t})]

(* Mutant of isSolvable: a kind with fewer than two tiles, none       *)
(* included, makes the board unsolvable (cnt <= 1 for cnt == 1).      *)
isSolvable_AtMostOne(tl) ==
  LET c == cnts(tl) IN \A t \in tile0 .. tile7 : ~(c[t] <= 1)

isSolvable(tl) ==
  LET c == cnts(tl) IN \A t \in tile0 .. tile7 : c[t] # 1

RECURSIVE movesDir_AnyNeighbour(_, _, _, _, _, _)
(* Mutant of movesDir: the adjacent cell is offered without testing   *)
(* that it is Empty.                                                   *)
movesDir_AnyNeighbour(tl, x, y, t, dirX, x2) ==
  IF get(tl, x2, y) = tileEmpty \/ x2 = x + dirX
  THEN <<Mv(y, x, x2)>> \o
       (IF get(tl, x2, y) # tileEmpty
           \/ get(tl, x2, y + 1) = tileEmpty \/ get(tl, x2, y + 1) = t
        THEN <<>>
        ELSE movesDir_AnyNeighbour(tl, x, y, t, dirX, x2 + dirX))
  ELSE <<>>

RECURSIVE movesDir_StopExcluded(_, _, _, _, _, _)
(* Mutant of movesDir: the cell at which the slide stops is not        *)
(* offered (the test of the cell below comes before the append).       *)
movesDir_StopExcluded(tl, x, y, t, dirX, x2) ==
  IF get(tl, x2, y) = tileEmpty
  THEN IF get(tl, x2, y + 1) = tileEmpty \/ get(tl, x2, y + 1) = t
       THEN <<>>
       ELSE <<Mv(y, x, x2)>>
            \o movesDir_StopExcluded(tl, x, y, t, dirX, x2 + dirX)
  ELSE <<>>

RECURSIVE movesDir(_, _, _, _, _, _)
(* The inner for loop of possibleMoves in direction dirX from x2 on. *)
movesDir(tl, x, y, t, dirX, x2) ==
  IF get(tl, x2, y) = tileEmpty
  THEN <<Mv(y, x, x2)>> \o
       (IF get(tl, x2, y + 1) = tileEmpty \/ get(tl, x2, y + 1) = t
        THEN <<>>
        ELSE movesDir(tl, x, y, t, dirX, x2 + dirX))
  ELSE <<>>

RECURSIVE movesRow(_, _, _)
(* The loop of possibleMoves over the columns x.. of row y. *)
movesRow(tl, y, x) ==
  IF x >= playfieldW THEN <<>>
  ELSE LET t == get(tl, x, y)
       IN IF ~isMobile(t) THEN movesRow(tl, y, x + 1)
          ELSE movesDir(tl, x, y, t, -1, x - 1)
               \o movesDir(tl, x, y, t, 1, x + 1)
               \o movesRow(tl, y, x + 1)

RECURSIVE movesRows(_, _)
(* The loop of possibleMoves over the rows y.. *)
movesRows(tl, y) ==
  IF y >= playfieldH THEN <<>>
  ELSE movesRow(tl, y, 0) \o movesRows(tl, y + 1)

possibleMoves(tl) == movesRows(tl, 0)

(* ------------------------------------------------------------------ *)
(* Start boards                                                        *)
(* ------------------------------------------------------------------ *)
WinCells == (0 .. (RegionW - 1)) \X WinRows

(* The assignments of tiles of palette to at most MaxTiles window      *)
(* cells in which no tile floats: a tile of the upper row stands on a  *)
(* tile of the lower row.                                              *)
Contents(palette) ==
  UNION { [S -> palette] :
          S \in {T \in SUBSET WinCells :
                   /\ Cardinality(T) <= MaxTiles
                   /\ \A p \in T : p[2] = 0 => <<p[1], 1>> \in T} }

(* The level text: background everywhere, the window at origin o, and *)
(* a row of wall under the window where the playfield has one.         *)
Level(o, content) ==
  [y \in 0 .. (playfieldH - 1) |-> [x \in 0 .. (playfieldW - 1) |->
     LET w == <<x - o[1], y - o[2]>>
     IN IF w \in WinCells
        THEN IF w \in DOMAIN content THEN content[w] ELSE tileEmpty
        ELSE IF w[1] \in 0 .. (RegionW - 1) /\ w[2] = Cardinality(WinRows)
        THEN tileWall
        ELSE tileBg]]

StartBoards ==
  UNION { { playfieldFromString(Level(w.o, c)) : c \in Contents(w.palette) }
          : w \in Windows }

(* ------------------------------------------------------------------ *)
(* The frontier: a singly linked list of heap nodes. A pointer is a    *)
(* node address (a positive integer) or nil (0); elems maps the        *)
(* addresses of the live nodes to their fields.                        *)
(* ------------------------------------------------------------------ *)
nil == 0

emptyDeque == [head |-> nil, tail |-> nil, sz |-> 0, elems |-> <<>>]

empty(d) == d.head = nil

(* Mutant of pop: the newest node, at the tail, is taken. *)
pop_Last(d) ==
  LET t == d.tail
      rest == (DOMAIN d.elems) \ {t}
  IN [d |-> IF d.head = t
            THEN [head |-> nil, tail |-> nil, sz |-> d.sz - 1,
                  elems |-> [a \in rest |-> d.elems[a]]]
            ELSE LET b == CHOOSE a \in rest : d.elems[a].next = t
                 IN [head |-> d.head, tail |-> b, sz |-> d.sz - 1,
                     elems |-> [a \in rest |->
                                  IF a = b THEN [d.elems[a] EXCEPT !.next = nil]
                                  ELSE d.elems[a]]],
      res |-> d.elems[t].val]

(* Mutant of pop: sz is not decremented. *)
pop_NoCount(d) ==
  LET h == d.elems[d.head].next
  IN [d |-> [head |-> h,
             tail |-> IF h = nil THEN nil ELSE d.tail,
             sz |-> d.sz,
             elems |-> [a \in (DOMAIN d.elems) \ {d.head} |-> d.elems[a]]],
      res |-> d.elems[d.head].val]

(* d.pop(): the deque after the call and the value returned. The node  *)
(* popped is unreachable afterwards and leaves the heap.               *)
pop(d) ==
  LET h == d.elems[d.head].next
  IN [d |-> [head |-> h,
             tail |-> IF h = nil THEN nil ELSE d.tail,
             sz |-> d.sz - 1,
             elems |-> [a \in (DOMAIN d.elems) \ {d.head} |-> d.elems[a]]],
      res |-> d.elems[d.head].val]

(* A free heap address for a new node. *)
newElem(d) ==
  CHOOSE a \in 1 .. (Cardinality(DOMAIN d.elems) + 1) : a \notin DOMAIN d.elems

(* Mutant of push: the new node is linked in at the head. *)
push_Front(d, pf) ==
  LET a == newElem(d)
  IN IF d.head = nil
     THEN [head |-> a, tail |-> a, sz |-> d.sz + 1,
           elems |-> (a :> [next |-> nil, val |-> pf]) @@ d.elems]
     ELSE [head |-> a, tail |-> d.tail, sz |-> d.sz + 1,
           elems |-> (a :> [next |-> d.head, val |-> pf]) @@ d.elems]

push(d, pf) ==
  LET a == newElem(d)
      elem == [next |-> nil, val |-> pf]
  IN IF d.head = nil
     THEN [head |-> a, tail |-> a, sz |-> d.sz + 1,
           elems |-> (a :> elem) @@ d.elems]
     ELSE [head |-> d.head, tail |-> a, sz |-> d.sz + 1,
           elems |-> (a :> elem) @@ [d.elems EXCEPT ![d.tail].next = a]]

size(d) == d.sz

RECURSIVE listFrom(_, _)
(* The playfields of the list from node a on, in list order. *)
listFrom(d, a) ==
  IF a = nil THEN <<>> ELSE <<d.elems[a].val>> \o listFrom(d, d.elems[a].next)

(* ------------------------------------------------------------------ *)
(* main: the search loop and the replay of the path                    *)
(* ------------------------------------------------------------------ *)
VARIABLES
  startPf,     \* the start playfield
  seen,        \* map[tiles]bool, as its key set
  playfields,  \* the deque
  solution,    \* <<>> for a nil pointer, <<pf>> otherwise
  pfCnt,       \* playfields popped
  pc,          \* position in main
  pf,          \* the playfield popped (search) 
  moves,       \* the moves being ranged over (search batch, then replay)
  mi,          \* 1-based index of the current move in moves
  pf2,         \* the playfield apply is working on / has returned
  solved,      \* solved := solution != nil
  cur,         \* replay: the current playfield
  steps,       \* replay: the playfields so far
  seenLen      \* history: for each key of seen, the length of the path
               \* of the candidate that inserted it

vars ==
  <<startPf, seen, playfields, solution, pfCnt, pc, pf, moves, mi, pf2,
    solved, cur, steps, seenLen>>

Init ==
  /\ startPf \in StartBoards
  /\ seen = {}
  /\ playfields = push(emptyDeque, startPf)
  /\ solution = <<>>
  /\ pfCnt = 0
  /\ pc = "loop"
  /\ pf = startPf
  /\ moves = <<>>
  /\ mi = 1
  /\ pf2 = startPf
  /\ solved = FALSE
  /\ cur = startPf
  /\ steps = <<>>
  /\ seenLen = <<>>

(* Mutant of Pop: the loop goes on while the frontier is not empty,    *)
(* whether or not a solution has been found.                           *)
Pop_IgnoreSolution ==
  /\ pc = "loop"
  /\ ~empty(playfields)
  /\ LET r == pop(playfields)
     IN /\ playfields' = r.d
        /\ pf' = r.res
        /\ moves' = possibleMoves(r.res.tiles)
  /\ pfCnt' = pfCnt + 1
  /\ mi' = 1
  /\ pc' = "for"
  /\ UNCHANGED <<seenLen, startPf, seen, solution, pf2, solved, cur, steps>>

(* Lines 686-695: the loop condition holds; pop and list the moves. *)
Pop ==
  /\ pc = "loop"
  /\ solution = <<>> /\ ~empty(playfields)
  /\ LET r == pop(playfields)
     IN /\ playfields' = r.d
        /\ pf' = r.res
        /\ moves' = possibleMoves(r.res.tiles)
  /\ pfCnt' = pfCnt + 1
  /\ mi' = 1
  /\ pc' = "for"
  /\ UNCHANGED <<seenLen, startPf, seen, solution, pf2, solved, cur, steps>>

(* Mutant of ForBody: apply works on the playfield popped itself      *)
(* (pf2 := pf for pf2 := pf.clone()).                                  *)
ForBody_InPlace ==
  /\ pc = "for"
  /\ mi <= Len(moves)
  /\ LET s == applySlide(pf, moves[mi])
     IN IF panicked(s.tiles)
        THEN pf2' = pf2 /\ pf' = pf /\ pc' = "panic"
        ELSE pf2' = s /\ pf' = s /\ pc' = "apply"
  /\ UNCHANGED <<seenLen, startPf, seen, playfields, solution, pfCnt, moves, mi,
                 solved, cur, steps>>

(* Lines 696-697 and 135-142: the next move of the batch enters apply; *)
(* a slide outside the array panics there.                             *)
ForBody ==
  /\ pc = "for"
  /\ mi <= Len(moves)
  /\ LET s == applySlide(pf, moves[mi])
     IN IF panicked(s.tiles)
        THEN pf2' = pf2 /\ pc' = "panic"
        ELSE pf2' = s /\ pc' = "apply"
  /\ UNCHANGED <<seenLen, startPf, seen, playfields, solution, pfCnt, pf, moves, mi,
                 solved, cur, steps>>

(* Lines 144-154: one iteration of the loop of apply, called from the  *)
(* search ("apply") or from the replay ("replayApply").                *)
ApplyPass ==
  /\ pc \in {"apply", "replayApply"}
  /\ LET r == applyPass(pf2.tiles)
     IN IF r.panic
        THEN /\ pc' = "panic"
             /\ pf2' = pf2
        ELSE /\ pf2' = [pf2 EXCEPT !.tiles = r.tiles]
             /\ pc' = IF r.changed THEN pc
                      ELSE IF pc = "apply" THEN "check" ELSE "replayNext"
  /\ UNCHANGED <<seenLen, startPf, seen, playfields, solution, pfCnt, pf, moves, mi,
                 solved, cur, steps>>

(* Mutant of Check: the candidate is pushed before the solvability   *)
(* check instead of after it.                                          *)
Check_PushBeforePrune ==
  /\ pc = "check"
  /\ IF pf2.tiles \in seen
     THEN UNCHANGED <<seen, seenLen, solution, playfields>>
     ELSE /\ seen' = seen \cup {pf2.tiles}
          /\ seenLen' = (pf2.tiles :> Len(pf2.path)) @@ seenLen
          /\ playfields' = push(playfields, pf2)
          /\ solution' = IF isSolvable(pf2.tiles) /\ isSolved(pf2.tiles)
                         THEN <<pf2>> ELSE solution
  /\ mi' = mi + 1
  /\ pc' = "for"
  /\ UNCHANGED <<startPf, pfCnt, pf, moves, pf2, solved, cur, steps>>

(* Lines 698-716: the candidate pf2 returned by apply is looked up in  *)
(* seen, recorded, tested and pushed.                                  *)
Check ==
  /\ pc = "check"
  /\ IF pf2.tiles \in seen
     THEN UNCHANGED <<seen, seenLen, solution, playfields>>
     ELSE /\ seen' = seen \cup {pf2.tiles}
          /\ seenLen' = (pf2.tiles :> Len(pf2.path)) @@ seenLen
          /\ IF ~isSolvable(pf2.tiles)
             THEN UNCHANGED <<solution, playfields>>
             ELSE /\ solution' = IF isSolved(pf2.tiles) THEN <<pf2>>
                                 ELSE solution
                  /\ playfields' = push(playfields, pf2)
  /\ mi' = mi + 1
  /\ pc' = "for"
  /\ UNCHANGED <<startPf, pfCnt, pf, moves, pf2, solved, cur, steps>>

(* Line 696: the range over moves is exhausted. *)
ForEnd ==
  /\ pc = "for"
  /\ mi > Len(moves)
  /\ pc' = "loop"
  /\ UNCHANGED <<seenLen, startPf, seen, playfields, solution, pfCnt, pf, moves, mi,
                 pf2, solved, cur, steps>>

(* Lines 686 and 718-733: the loop condition fails; report and set up  *)
(* the replay.                                                         *)
LoopExit ==
  /\ pc = "loop"
  /\ ~(solution = <<>> /\ ~empty(playfields))
  /\ solved' = (solution # <<>>)
  /\ solution' = IF solution = <<>> THEN <<startPf>> ELSE solution
  /\ moves' = solution'[1].path
  /\ steps' = <<startPf>>
  /\ cur' = startPf
  /\ mi' = 1
  /\ pc' = "replay"
  /\ UNCHANGED <<seenLen, startPf, seen, playfields, pfCnt, pf, pf2>>

(* Lines 736-737: the next move of the path enters apply. *)
ReplayBody ==
  /\ pc = "replay"
  /\ mi <= Len(moves)
  /\ LET s == applySlide(cur, moves[mi])
     IN IF panicked(s.tiles)
        THEN pf2' = pf2 /\ pc' = "panic"
        ELSE pf2' = s /\ pc' = "replayApply"
  /\ UNCHANGED <<seenLen, startPf, seen, playfields, solution, pfCnt, pf, moves, mi,
                 solved, cur, steps>>

(* Lines 737-740: apply has returned into the replay. *)
ReplayNext ==
  /\ pc = "replayNext"
  /\ cur' = pf2
  /\ steps' = Append(steps, pf2)
  /\ mi' = mi + 1
  /\ pc' = "replay"
  /\ UNCHANGED <<seenLen, startPf, seen, playfields, solution, pfCnt, pf, moves, pf2,
                 solved>>

(* Line 736: the path is exhausted. *)
ReplayEnd ==
  /\ pc = "replay"
  /\ mi > Len(moves)
  /\ pc' = "done"
  /\ UNCHANGED <<seenLen, startPf, seen, playfields, solution, pfCnt, pf, moves, mi,
                 pf2, solved, cur, steps>>

Next ==
  \/ Pop
  \/ ForBody
  \/ ApplyPass
  \/ Check
  \/ ForEnd
  \/ LoopExit
  \/ ReplayBody
  \/ ReplayNext
  \/ ReplayEnd

Spec == Init /\ [][Next]_vars

(* ------------------------------------------------------------------ *)
(* A walk over the boards: from a start board, any generated move is   *)
(* applied, any number of times. pf is the board the walk has reached  *)
(* (startPf goes along with it). pc is "start" before the first move,  *)
(* "walk" after a move as long as isSolvable has held of every board   *)
(* a move of the walk was applied to, and "pruned" once a move has     *)
(* been applied to a board for which it is false. The walk keeps no    *)
(* move history.                                                       *)
(* ------------------------------------------------------------------ *)
WalkInit ==
  /\ startPf \in StartBoards
  /\ seen = {}
  /\ playfields = emptyDeque
  /\ solution = <<>>
  /\ pfCnt = 0
  /\ pc = "start"
  /\ pf = startPf
  /\ moves = <<>>
  /\ mi = 1
  /\ pf2 = startPf
  /\ solved = FALSE
  /\ cur = startPf
  /\ steps = <<>>
  /\ seenLen = <<>>

WalkMove ==
  /\ pc \in {"start", "walk", "pruned"}
  /\ LET ms == possibleMoves(pf.tiles)
     IN \E i \in 1 .. Len(ms) :
           LET r == apply(pf, ms[i])
               nxt == [tiles |-> r.pf.tiles, path |-> <<>>]
           IN /\ ~r.panic
              /\ pf' = nxt
              /\ startPf' = nxt
              /\ pf2' = nxt
              /\ cur' = nxt
  /\ pc' = IF pc = "pruned" \/ ~isSolvable(pf.tiles)
             THEN "pruned" ELSE "walk"
  /\ UNCHANGED <<seen, playfields, solution, pfCnt, moves, mi,
                 solved, steps, seenLen>>

WalkNext == WalkMove

WalkSpec == WalkInit /\ [][WalkNext]_vars

(* ------------------------------------------------------------------ *)
(* apply called directly, with any move of the rows and columns of the *)
(* window and around it, generated or not, and with moves whose        *)
(* destination column or whose row lies outside the array.             *)
(* ------------------------------------------------------------------ *)
AnyMoves ==
  UNION { { Mv(y, x, x2) :
              y \in ((w.o[2] .. (w.o[2] + Cardinality(WinRows))) \cap
                     (0 .. (playfieldH - 1))) \cup {playfieldH + 1},
              x \in ((w.o[1] - 1) .. (w.o[1] + RegionW)) \cap
                    (0 .. (playfieldW - 1)),
              x2 \in (((w.o[1] - 1) .. (w.o[1] + RegionW)) \cap
                      (0 .. (playfieldW - 1)))
                     \cup {0 - 2, playfieldW + 1} }
          : w \in {v \in Windows : v.o = <<4, 5>>} }

ApplyInit ==
  /\ startPf \in { playfieldFromString(Level(<<4, 5>>, c)) :
                   c \in Contents({tile1, tile8}) }
  /\ seen = {}
  /\ playfields = emptyDeque
  /\ solution = <<>>
  /\ pfCnt = 0
  /\ pc = "for"
  /\ pf = startPf
  /\ \E m \in AnyMoves : moves = <<m>>
  /\ mi = 1
  /\ pf2 = startPf
  /\ solved = FALSE
  /\ cur = startPf
  /\ steps = <<>>
  /\ seenLen = <<>>

ApplyNext ==
  \/ ForBody
  \/ ApplyPass

ApplySpec == ApplyInit /\ [][ApplyNext]_vars

(* ------------------------------------------------------------------ *)
(* removeTiles called once: on a start board as it is ("start"), or on *)
(* a start board after the slide of a generated move ("slid"). pf      *)
(* keeps the playfield the pass was given and pf2 is the playfield     *)
(* after it; pc tells what the pass returned.                          *)
(* ------------------------------------------------------------------ *)
RemoveInit ==
  /\ startPf \in StartBoards
  /\ seen = {}
  /\ playfields = emptyDeque
  /\ solution = <<>>
  /\ pfCnt = 0
  /\ pc = "start"
  /\ pf = startPf
  /\ moves = <<>>
  /\ mi = 1
  /\ pf2 = startPf
  /\ solved = FALSE
  /\ cur = startPf
  /\ steps = <<>>
  /\ seenLen = <<>>

RemoveSlide ==
  /\ pc = "start"
  /\ LET ms == possibleMoves(pf2.tiles)
     IN \E i \in 1 .. Len(ms) :
           /\ pf2' = [tiles |-> applySlide(pf2, ms[i]).tiles, path |-> <<>>]
           /\ pf' = pf2'
  /\ pc' = "slid"
  /\ UNCHANGED <<seenLen, startPf, seen, playfields, solution, pfCnt, moves, mi,
                 solved, cur, steps>>

RemovePass ==
  /\ pc \in {"start", "slid"}
  /\ LET r == removeTiles(pf2.tiles)
     IN /\ pf2' = [pf2 EXCEPT !.tiles = r.tiles]
        /\ pc' = IF r.panic THEN "panic"
                 ELSE IF r.changed THEN "removed" ELSE "kept"
  /\ UNCHANGED <<seenLen, startPf, seen, playfields, solution, pfCnt, pf, moves, mi,
                 solved, cur, steps>>

RemoveNext ==
  \/ RemoveSlide
  \/ RemovePass

RemoveSpec == RemoveInit /\ [][RemoveNext]_vars

(* ------------------------------------------------------------------ *)
(* The deque on its own: any sequence of at most DequeOps calls of     *)
(* push, with any of DequeVals as the value, and of pop, called only   *)
(* when empty() is false. steps keeps the values pushed and not yet    *)
(* popped, oldest first; mi - 1 counts the pushes and pfCnt the pops;  *)
(* pf is the value pop returned last.                                  *)
(* ------------------------------------------------------------------ *)
DequeOps == 5

(* The values pushed: three distinct playfields. *)
DequeVals ==
  { playfieldFromString(Level(<<4, 5>>, c)) :
      c \in { d \in Contents({tile1}) :
                /\ DOMAIN d \subseteq {<<0, 1>>, <<1, 1>>}
                /\ Cardinality(DOMAIN d) <= 1 } }

DequeInit ==
  /\ startPf \in DequeVals
  /\ seen = {}
  /\ seenLen = <<>>
  /\ playfields = emptyDeque
  /\ solution = <<>>
  /\ pfCnt = 0
  /\ pc = "deque"
  /\ pf = startPf
  /\ moves = <<>>
  /\ mi = 1
  /\ pf2 = startPf
  /\ solved = FALSE
  /\ cur = startPf
  /\ steps = <<>>

DequePush ==
  /\ pc = "deque"
  /\ (mi - 1) + pfCnt < DequeOps
  /\ \E v \in DequeVals :
        /\ playfields' = push(playfields, v)
        /\ steps' = Append(steps, v)
  /\ mi' = mi + 1
  /\ UNCHANGED <<seenLen, startPf, seen, solution, pfCnt, pc, pf, moves, pf2,
                 solved, cur>>

DequePop ==
  /\ pc = "deque"
  /\ (mi - 1) + pfCnt < DequeOps
  /\ ~empty(playfields)
  /\ LET r == pop(playfields)
     IN /\ playfields' = r.d
        /\ pf' = r.res
  /\ steps' = Tail(steps)
  /\ pfCnt' = pfCnt + 1
  /\ UNCHANGED <<seenLen, startPf, seen, solution, pc, moves, mi, pf2,
                 solved, cur>>

DequeNext ==
  \/ DequePush
  \/ DequePop

DequeSpec == DequeInit /\ [][DequeNext]_vars

(* ================================================================== *)
(* Properties                                                          *)
(* ================================================================== *)
Range(sq) == { sq[i] : i \in DOMAIN sq }

AllCells == Rows \X Cols

(* The number of cells of the array holding tile t. *)
Count(tl, t) == Cardinality({p \in AllCells : tl[p[1]][p[2]] = t})

(* The boards one generated move away from the board tl. *)
Successors(tl) ==
  LET rs == { apply([tiles |-> tl, path |-> <<>>], m) :
              m \in Range(possibleMoves(tl)) }
  IN { r.pf.tiles : r \in {q \in rs : ~q.panic} }

RECURSIVE ReachFrom(_, _)
ReachFrom(frontier, visited) ==
  IF frontier = {} THEN visited
  ELSE LET new == (UNION { Successors(tl) : tl \in frontier }) \ visited
       IN ReachFrom(new, visited \cup new)

(* The boards reachable from tl by one or more generated moves. *)
Reachable(tl) == ReachFrom({tl}, {})

(* The search loop has been left. *)
SearchEnded == pc \in {"replay", "replayApply", "replayNext", "done"}

(* The playfields in the frontier, front first. *)
Frontier == listFrom(playfields, playfields.head)

(* m is a legal slide on the board tl. *)
LegalMove(tl, m) ==
  /\ m.fromX \in 0 .. (playfieldW - 1)
  /\ m.fromY \in 0 .. (playfieldH - 1)
  /\ m.toX \in 0 .. (playfieldW - 1)
  /\ m.toX # m.fromX
  /\ isMobile(get(tl, m.fromX, m.fromY))
  /\ \A x \in 0 .. (playfieldW - 1) :
        ((m.fromX < x /\ x <= m.toX) \/ (m.toX <= x /\ x < m.fromX))
        => get(tl, x, m.fromY) = tileEmpty

(* ------------------------------------------------------------------ *)
(* C1: when the search reports a solution, replaying its path from the *)
(* start board with apply ends on a board whose grid is the grid of    *)
(* the solution and holds no erasable tile.                            *)
(* ------------------------------------------------------------------ *)
C1_ReplayReproducesSolution ==
  (pc = "done" /\ solved) =>
     /\ cur.tiles = solution[1].tiles
     /\ isSolved(cur.tiles)
     /\ Len(steps) = Len(solution[1].path) + 1

C1_Witness ==
  /\ pc = "done" /\ solved
  /\ Len(solution[1].path) >= 2
  /\ cur.tiles # startPf.tiles

(* ------------------------------------------------------------------ *)
(* C2: for a start board without erasable tile the search reports      *)
(* solved with an empty path.                                          *)
(* ------------------------------------------------------------------ *)
C2_SolvedStartReportedSolved ==
  (pc = "done" /\ isSolved(startPf.tiles)) =>
     (solved /\ solution[1].path = <<>>)

(* ------------------------------------------------------------------ *)
(* C3: when the search ends without a solution, no board without       *)
(* erasable tile is reachable from the start board by one or more      *)
(* generated moves.                                                    *)
(* ------------------------------------------------------------------ *)
C3_NoSolutionMeansNoneReachable ==
  (pc = "done" /\ ~solved) =>
     \A tl \in Reachable(startPf.tiles) : ~isSolved(tl)

C3_Witness ==
  /\ pc = "done" /\ ~solved
  /\ Cardinality(seen) >= 2
  /\ \E tl \in seen : ~isSolvable(tl)

(* ------------------------------------------------------------------ *)
(* C4: for every start board the search loop ends, with a solution or  *)
(* with the frontier empty, and every apply returns: the program is    *)
(* never stopped inside the search loop or inside apply. (No action is *)
(* enabled exactly when pc is "done" or "panic".)                      *)
(* ------------------------------------------------------------------ *)
C4_SearchTerminates ==
  pc \notin {"loop", "for", "apply", "check",
             "replay", "replayApply", "replayNext"} => pc = "done"

(* ------------------------------------------------------------------ *)
(* C5: once a candidate without erasable tile is accepted the search   *)
(* stops: the candidate is not pushed, no further move is applied,     *)
(* seen and the frontier stay as they are and the solution is kept.    *)
(* ------------------------------------------------------------------ *)
C5_StopsAtFirstSolved ==
  [][ /\ (solution = <<>> /\ solution' # <<>>) => playfields' = playfields
      /\ solution # <<>> =>
           /\ seen' = seen
           /\ playfields' = playfields
           /\ solution' = solution
           /\ pc' # "apply" ]_vars

(* ------------------------------------------------------------------ *)
(* C6: apply leaves its input as it was: the playfield popped keeps    *)
(* its grid and its path through every apply of the batch, and so does *)
(* the current playfield of the replay.                                *)
(* ------------------------------------------------------------------ *)
C6_ApplyKeepsInput ==
  [][ /\ pc \in {"for", "apply", "check"} => pf' = pf
      /\ pc \in {"replay", "replayApply"} => cur' = cur ]_vars

C6_Witness ==
  /\ pc = "check"
  /\ mi >= 2
  /\ pf2.tiles # pf.tiles
  /\ Len(pf.path) >= 1

(* ------------------------------------------------------------------ *)
(* C7: the board apply returns holds, of each mobile kind, at most as  *)
(* many tiles as its input, and the same Wall and Background cells.    *)
(* ------------------------------------------------------------------ *)
Conserved(a, b) ==
  /\ \A t \in tile0 .. tile8 : Count(b, t) <= Count(a, t)
  /\ \A p \in AllCells :
        (a[p[1]][p[2]] \in {tileWall, tileBg}
           \/ b[p[1]][p[2]] \in {tileWall, tileBg})
        => a[p[1]][p[2]] = b[p[1]][p[2]]

C7_Conservation ==
  /\ pc = "check" => Conserved(pf.tiles, pf2.tiles)
  /\ pc = "replayNext" => Conserved(cur.tiles, pf2.tiles)

C7_Witness ==
  /\ pc = "check"
  /\ \E t \in tile0 .. tile7 : Count(pf2.tiles, t) < Count(pf.tiles, t)
  /\ \E t \in tile0 .. tile8 : Count(pf2.tiles, t) = Count(pf.tiles, t)
                               /\ Count(pf2.tiles, t) > 0

(* ------------------------------------------------------------------ *)
(* C8: apply rejects a move whose source holds no mobile tile or whose *)
(* destination is not an Empty cell the tile can slide to: it returns  *)
(* no board for it.                                                    *)
(* ------------------------------------------------------------------ *)
C8_IllegalMoveRejected ==
  pc = "check" => LegalMove(pf.tiles, moves[mi])

(* ------------------------------------------------------------------ *)
(* C9: every move possibleMoves returns slides a mobile tile to        *)
(* another column of its row, inside the playfield, over Empty cells   *)
(* onto an Empty cell.                                                 *)
(* ------------------------------------------------------------------ *)
C9_GeneratedMovesLegal ==
  pc = "for" => \A i \in 1 .. Len(moves) : LegalMove(pf.tiles, moves[i])

C9_Witness ==
  /\ pc = "for"
  /\ \E i \in 1 .. Len(moves) : moves[i].toX - moves[i].fromX >= 2
  /\ \E i \in 1 .. Len(moves) : moves[i].toX < moves[i].fromX

(* ------------------------------------------------------------------ *)
(* C10: from a board for which isSolvable is false no sequence of      *)
(* generated moves leads to a board for which isSolved is true.        *)
(* ------------------------------------------------------------------ *)
C10_UnsolvableStaysUnsolved ==
  pc = "pruned" => ~isSolved(pf.tiles)

C10_Witness ==
  /\ pc = "pruned"
  /\ possibleMoves(pf.tiles) # <<>>
  /\ \E t \in tile0 .. tile7 : Count(pf.tiles, t) >= 2

(* ------------------------------------------------------------------ *)
(* C11: during the search the grid of the start board is in seen, the  *)
(* grid of every board in the frontier is in seen, no two boards of    *)
(* the frontier have the same grid, and no more boards have been       *)
(* popped than seen holds grids (each grid is expanded at most once).  *)
(* ------------------------------------------------------------------ *)
C11_SeenHoldsStartKey ==
  pc \in {"loop", "for", "apply", "check"} =>
     /\ startPf.tiles \in seen
     /\ \A i \in 1 .. Len(Frontier) : Frontier[i].tiles \in seen
     /\ \A i, j \in 1 .. Len(Frontier) :
           Frontier[i].tiles = Frontier[j].tiles => i = j
     /\ pfCnt <= Cardinality(seen)

(* ------------------------------------------------------------------ *)
(* C12: a board returned by apply is stabilized: no mobile tile of the *)
(* rows above the bottom row, row 0 included, has an Empty cell        *)
(* directly below it, and no two 4-adjacent cells of the playfield     *)
(* hold the same erasable kind.                                        *)
(* ------------------------------------------------------------------ *)
Stabilized(tl) ==
  /\ \A p \in Interior :
        (p[2] < playfieldH - 1 /\ isMobile(get(tl, p[1], p[2])))
        => get(tl, p[1], p[2] + 1) # tileEmpty
  /\ \A p \in Interior :
        isErasable(get(tl, p[1], p[2])) =>
           /\ p[1] < playfieldW - 1
                => get(tl, p[1] + 1, p[2]) # get(tl, p[1], p[2])
           /\ p[2] < playfieldH - 1
                => get(tl, p[1], p[2] + 1) # get(tl, p[1], p[2])

C12_ApplyResultStabilized ==
  pc \in {"walk", "pruned"} => Stabilized(pf.tiles)

(* ------------------------------------------------------------------ *)
(* C13: on a board returned by apply, dropTiles and removeTiles each   *)
(* change no cell and report no change, and so does the loop of apply  *)
(* run a second time.                                                  *)
(* ------------------------------------------------------------------ *)
C13_StabilizationIdempotent ==
  pc \in {"walk", "pruned"} =>
     LET d == dropTiles(pf.tiles)
         r == removeTiles(pf.tiles)
         l == applyLoop(pf.tiles)
     IN /\ ~d.changed /\ d.tiles = pf.tiles
        /\ ~r.panic /\ ~r.changed /\ r.tiles = pf.tiles
        /\ ~l.panic /\ ~l.changed /\ l.tiles = pf.tiles

C13_Witness ==
  /\ pc \in {"walk", "pruned"}
  /\ ~Stabilized(pf.tiles)
  /\ \E t \in tile0 .. tile7 : Count(pf.tiles, t) >= 2

(* ------------------------------------------------------------------ *)
(* C14: in the start board and in every board derived from it, every   *)
(* cell of the one-cell border of the array (row 0, row playfieldH+1,  *)
(* column 0, column playfieldW+1) holds Wall, and no pass reads        *)
(* outside the array.                                                  *)
(* ------------------------------------------------------------------ *)
Border ==
  { p \in AllCells : p[1] \in {0, playfieldH + 1}
                     \/ p[2] \in {0, playfieldW + 1} }

BorderIsWall(tl) == \A p \in Border : tl[p[1]][p[2]] = tileWall

C14_BorderIsWall ==
  /\ BorderIsWall(startPf.tiles)
  /\ BorderIsWall(pf.tiles)
  /\ BorderIsWall(pf2.tiles)
  /\ pc # "panic"

(* ------------------------------------------------------------------ *)
(* C15: a removal pass that returns has cleared exactly the cells of   *)
(* the playfield that, in the grid it was given, lie in a maximal      *)
(* 4-connected set of two or more cells of one erasable kind; every    *)
(* other cell is as it was, and the pass returns true exactly when it  *)
(* cleared a cell.                                                     *)
(* ------------------------------------------------------------------ *)
Adjacent(p, q) ==
  \/ p[1] = q[1] /\ (p[2] = q[2] + 1 \/ q[2] = p[2] + 1)
  \/ p[2] = q[2] /\ (p[1] = q[1] + 1 \/ q[1] = p[1] + 1)

RECURSIVE Grow(_, _)
(* The least set of playfield cells that holds S and every cell next   *)
(* to one of its cells with the same tile.                             *)
Grow(tl, S) ==
  LET N == S \cup { q \in Interior :
                      \E p \in S : Adjacent(p, q)
                                   /\ get(tl, q[1], q[2]) = get(tl, p[1], p[2]) }
  IN IF N = S THEN S ELSE Grow(tl, N)

(* The cells a pass on tl is to clear. *)
ToClear(tl) ==
  { p \in Interior : /\ isErasable(get(tl, p[1], p[2]))
                     /\ Cardinality(Grow(tl, {p})) >= 2 }

C15_RemovalExact ==
  pc \in {"removed", "kept"} =>
     /\ \A r \in Rows : \A c \in Cols :
           pf2.tiles[r][c] = IF <<c - 1, r - 1>> \in ToClear(pf.tiles)
                             THEN tileEmpty ELSE pf.tiles[r][c]
     /\ (pc = "removed") <=> (ToClear(pf.tiles) # {})

C15_Witness ==
  /\ pc = "removed"
  /\ pf.tiles # startPf.tiles
  /\ \E p, q \in ToClear(pf.tiles) : p[1] < q[1] /\ p[2] > q[2]

(* ------------------------------------------------------------------ *)
(* C16: a candidate whose grid is new and for which isSolvable is      *)
(* false gets its grid into seen, is not pushed on the frontier and    *)
(* does not become the solution; a candidate that becomes the solution *)
(* passes isSolvable.                                                  *)
(* ------------------------------------------------------------------ *)
C16_UnsolvablePruned ==
  [][ /\ (pc = "check" /\ pf2.tiles \notin seen /\ ~isSolvable(pf2.tiles))
         => /\ pf2.tiles \in seen'
            /\ playfields' = playfields
            /\ solution' = solution
      /\ (pc = "check" /\ solution' # solution)
         => isSolvable(solution'[1].tiles) ]_vars

C16_Witness ==
  /\ pc = "for" /\ mi > 1
  /\ ~isSolvable(pf2.tiles)
  /\ pf2.tiles \in seen
  /\ Len(Frontier) >= 1
  /\ \A i \in 1 .. Len(Frontier) : Frontier[i].tiles # pf2.tiles

(* ------------------------------------------------------------------ *)
(* C17: the board popped has a path at least as long as the path of    *)
(* the board popped before it, and a candidate found in seen has a     *)
(* path at least as long as the path of the candidate that inserted    *)
(* its grid.                                                           *)
(* ------------------------------------------------------------------ *)
C17_BreadthFirstOrder ==
  [][ /\ (pc = "loop" /\ pc' = "for") => Len(pf'.path) >= Len(pf.path)
      /\ (pc = "check" /\ pf2.tiles \in seen)
         => seenLen[pf2.tiles] <= Len(pf2.path) ]_vars

C17_Witness ==
  /\ pc = "check"
  /\ pf2.tiles \in seen
  /\ seenLen[pf2.tiles] < Len(pf2.path)
  /\ Len(pf.path) >= 1
  /\ pf2.tiles # startPf.tiles

(* ------------------------------------------------------------------ *)
(* C18: possibleMoves lists, for every mobile tile and each direction, *)
(* exactly the columns reached over Empty cells up to and including    *)
(* the first one whose cell below is Empty or holds the kind of the    *)
(* moving tile, in row-major order of the source, left before right,   *)
(* nearer before farther.                                              *)
(* ------------------------------------------------------------------ *)
(* The slide of tile t stops at column c of row y. *)
StopsAt(tl, t, c, y) ==
  get(tl, c, y + 1) = tileEmpty \/ get(tl, c, y + 1) = t

(* The columns offered to the tile at (x, y) in direction d. *)
Destinations(tl, x, y, d) ==
  { c \in { x + j * d : j \in 1 .. playfieldW } \cap (-1 .. playfieldW) :
      \A b \in -1 .. playfieldW :
         ((b - x) * d >= 1 /\ (c - b) * d >= 0) =>
            /\ get(tl, b, y) = tileEmpty
            /\ b # c => ~StopsAt(tl, get(tl, x, y), b, y) }

ExpectedMoves(tl) ==
  { m \in { Mv(p[2], p[1], c) :
              p \in {q \in Interior : isMobile(get(tl, q[1], q[2]))},
              c \in -1 .. playfieldW } :
      \/ m.toX \in Destinations(tl, m.fromX, m.fromY, -1)
      \/ m.toX \in Destinations(tl, m.fromX, m.fromY, 1) }

(* The place of a move in the order of the list. *)
MoveRank(m) ==
  ((m.fromY * playfieldW + m.fromX) * 2
     + (IF m.toX > m.fromX THEN 1 ELSE 0)) * (playfieldW + 2)
  + (IF m.toX > m.fromX THEN m.toX - m.fromX ELSE m.fromX - m.toX)

C18_MovesExact ==
  pc \in {"start", "walk", "pruned"} =>
     LET ms == possibleMoves(pf.tiles)
     IN /\ Range(ms) = ExpectedMoves(pf.tiles)
        /\ \A i \in 1 .. (Len(ms) - 1) : MoveRank(ms[i]) < MoveRank(ms[i + 1])

C18_Witness ==
  /\ pc \in {"walk", "pruned"}
  /\ LET ms == possibleMoves(pf.tiles)
     IN /\ \E i \in 1 .. Len(ms) :
              /\ ms[i].toX - ms[i].fromX >= 2
              /\ get(pf.tiles, ms[i].toX, ms[i].fromY + 1)
                   = get(pf.tiles, ms[i].fromX, ms[i].fromY)
        /\ \E i \in 1 .. Len(ms) :
              /\ ms[i].toX < ms[i].fromX
              /\ get(pf.tiles, ms[i].toX, ms[i].fromY + 1) = tileEmpty

(* ------------------------------------------------------------------ *)
(* C19: in every step that ends the run with a solution reported, no  *)
(* sequence of one or more generated moves, fewer than the reported    *)
(* path has, leads from the start board to a board without erasable    *)
(* tile.                                                               *)
(* ------------------------------------------------------------------ *)
RECURSIVE SolvedWithin(_, _, _)
(* Some board without erasable tile is 1 .. n generated moves away     *)
(* from a board of frontier; visited holds the boards met so far.      *)
SolvedWithin(frontier, visited, n) ==
  IF n <= 0 \/ frontier = {} THEN FALSE
  ELSE LET nxt == UNION { Successors(tl) : tl \in frontier }
       IN \/ \E tl \in nxt : isSolved(tl)
          \/ SolvedWithin(nxt \ visited, visited \cup nxt, n - 1)

C19_SolutionShortest ==
  [][ (pc' = "done" /\ solved') =>
         ~SolvedWithin({startPf'.tiles}, {startPf'.tiles},
                       Len(solution'[1].path) - 1) ]_vars

C19_Witness ==
  /\ pc = "done" /\ solved
  /\ Len(solution[1].path) >= 2
  /\ ~empty(playfields)
  /\ size(playfields) >= 2

(* ------------------------------------------------------------------ *)
(* C20: the list of the deque holds the values pushed and not yet      *)
(* popped, oldest at the head; pop returns the oldest of them; size()  *)
(* is the number of pushes less the number of pops; empty() is true    *)
(* exactly when size() is 0.                                           *)
(* ------------------------------------------------------------------ *)
C20_DequeIsFifo ==
  [][ /\ Frontier' = steps'
      /\ size(playfields') = (mi' - 1) - pfCnt'
      /\ empty(playfields') <=> (size(playfields') = 0)
      /\ pfCnt' # pfCnt => pf' = Head(steps) ]_vars

C20_Witness ==
  /\ pc = "deque"
  /\ pfCnt >= 2
  /\ mi - 1 >= 3
  /\ Len(steps) >= 1
  /\ pf # steps[1]
====
